---- MODULE Spec2Model ----
(***************************************************************************)
(* A model of finn-property-scraper: the pagination loop of scrape(), the  *)
(* link harvester, the deduplication by finn code, the per-listing         *)
(* extraction of parse_property_page, and the two Address resolvers.       *)
(*                                                                         *)
(* Python values are modelled as follows.  A str is a sequence of one-     *)
(* character tokens, except that the site origin and the two fixed path    *)
(* pieces of a listing link are one token each.  Optional[T] is None       *)
(* (the empty tuple) or Some(v) (the one-element tuple <<v>>).             *)
(***************************************************************************)
EXTENDS Integers, Sequences, FiniteSets, TLC

VARIABLES
    pc,                \* position of scrape() / of the component driver
    page,              \* scrape: local `page`
    max_pages,         \* scrape: parameter `max_pages` (None or an int)
    neighbourhoods,    \* scrape: the loaded geojson (Optional feature collection)
    property_meta,     \* scrape: list of RealestateMetadata collected so far
    properties,        \* scrape: list(set(property_meta))
    idx,               \* scrape: position of the `for property in properties` loop
    parsed_properties, \* scrape: list of Property records parsed so far
    csv_out,           \* rows written to output.csv (None until written)
    json_out,          \* records written to output.json (None until written)
    requested,         \* history: page numbers passed to browser.get, in order
    harvested,         \* history: every metadata _find_realestate_meta returned, in order
    eq_seen,           \* history: first page whose control showed current = max (0: none yet)
    crawl_end,         \* history: None while the crawl loop runs, then <<page, why>>: why is
                       \* "load", "harvest" or "more" (the step whose exception line 117
                       \* caught), "last" (break at line 112) or "max" (break at line 115)
    parse_calls,       \* history: the metadata passed to parse_property_page, in order
    failed,            \* history: the metadata whose parse_property_page call raised
    hrefs,             \* harvester: hrefs of the anchors of the rendered page
    meta_out,          \* harvester: result of _find_realestate_meta
    address,           \* extractor: the Address object most recently constructed
    last               \* extractor: the last call made, its arguments and its outcome

vars == <<pc, page, max_pages, neighbourhoods, property_meta, properties, idx,
          parsed_properties, csv_out, json_out, requested, harvested, eq_seen,
          crawl_end, parse_calls, failed, hrefs, meta_out, address, last>>

scrapeVars == <<page, max_pages, property_meta, properties, idx,
                parsed_properties, csv_out, json_out, requested, harvested,
                eq_seen, crawl_end, parse_calls, failed>>
harvestVars == <<hrefs, meta_out>>
extractVars == <<address, last>>

----------------------------------------------------------------------------
(* Bounds of the model *)

\* number of results pages the modelled site is asked for at most
MaxPage == 2
\* number of anchors on a page handed to the harvester on its own
MaxLinks == 3
\* coordinates are drawn from 0..MaxCoord
MaxCoord == 2

----------------------------------------------------------------------------
(* Python values *)

None == <<>>
Some(v) == <<v>>
Val(o) == o[1]

\* truth value of an Optional[str] / Optional[list] (None and empty are falsy)
TruthySeq(o) == o # None /\ Val(o) # <<>>
\* truth value of an Optional[float] / Optional[int] (None and 0 are falsy)
TruthyNum(o) == o # None /\ Val(o) # 0

Min(S) == CHOOSE x \in S : \A y \in S : x <= y
Max(S) == CHOOSE x \in S : \A y \in S : x >= y

RECURSIVE Flatten(_)
Flatten(ss) == IF ss = <<>> THEN <<>> ELSE Head(ss) \o Flatten(Tail(ss))

RECURSIVE SeqsUpTo(_, _)
SeqsUpTo(S, n) ==
    IF n = 0 THEN {<<>>}
    ELSE LET shorter == SeqsUpTo(S, n - 1)
         IN shorter \cup {Append(s, x) : s \in shorter, x \in S}

Range(s) == {s[i] : i \in DOMAIN s}

Digits == {"0", "1", "2", "3", "4", "5", "6", "7", "8", "9"}
Letters == {"a", "b", "c", "d", "e", "f", "g", "h", "i", "j", "k", "l", "m",
            "n", "o", "p", "q", "r", "s", "t", "u", "v", "w", "x", "y", "z",
            "A", "B", "C", "D", "E", "F", "G", "H", "I", "J", "K", "L", "M",
            "N", "O", "P", "Q", "R", "S", "T", "U", "V", "W", "X", "Y", "Z"}
Spaces == {" ", "\n", "\t"}

DigitValue(c) ==
    CASE c = "0" -> 0 [] c = "1" -> 1 [] c = "2" -> 2 [] c = "3" -> 3
      [] c = "4" -> 4 [] c = "5" -> 5 [] c = "6" -> 6 [] c = "7" -> 7
      [] c = "8" -> 8 [] c = "9" -> 9

\* int(s) for a non-empty string of digits
RECURSIVE ParseInt(_)
ParseInt(s) ==
    IF s = <<>> THEN 0
    ELSE ParseInt(SubSeq(s, 1, Len(s) - 1)) * 10 + DigitValue(s[Len(s)])

\* length of the longest run of tokens of class C starting at position i of s
RECURSIVE RunLen(_, _, _)
RunLen(s, i, C) ==
    IF i > Len(s) \/ s[i] \notin C THEN 0 ELSE 1 + RunLen(s, i + 1, C)

\* str.strip()
RECURSIVE LStrip(_)
LStrip(s) == IF s # <<>> /\ Head(s) \in Spaces THEN LStrip(Tail(s)) ELSE s
RECURSIVE RStrip(_)
RStrip(s) ==
    IF s # <<>> /\ s[Len(s)] \in Spaces THEN RStrip(SubSeq(s, 1, Len(s) - 1)) ELSE s
Strip(s) == RStrip(LStrip(s))

----------------------------------------------------------------------------
(* scraper.py: the listing pattern and the harvester *)

ORIGIN == "https://www.finn.no"
REALESTATE == "/realestate/"
ADHTML == "/ad.html?finnkode="

\* REALESTATE_PATTERN.match(url): None, or the match with its two named groups.
\* `$` matches at the end and also just before a final newline.
REALESTATE_PATTERN(url) ==
    LET o == IF url # <<>> /\ url[1] = ORIGIN THEN 1 ELSE 0
        nc == RunLen(url, o + 2, Letters)
        nd == RunLen(url, o + nc + 3, Digits)
        e == o + nc + nd + 2
    IN IF /\ Len(url) >= o + 1
          /\ url[o + 1] = REALESTATE
          /\ nc >= 1
          /\ Len(url) >= o + nc + 2
          /\ url[o + nc + 2] = ADHTML
          /\ nd >= 1
          /\ \/ Len(url) = e
             \/ Len(url) = e + 1 /\ url[e + 1] = "\n"
       THEN Some([cat |-> SubSeq(url, o + 2, o + nc + 1),
                  finncode |-> SubSeq(url, o + nc + 3, e)])
       ELSE None

RealestateMetadata(url, category, finn_id) ==
    [url |-> url, category |-> category, finn_id |-> finn_id]

\* the url= argument at line 55: f"https://www.finn.no{url}"
MetaUrl(url) == <<ORIGIN>> \o url

RECURSIVE _find_realestate_meta(_)
_find_realestate_meta(a_element) ==
    IF a_element = <<>> THEN <<>>
    ELSE LET url == Head(a_element)
             match == REALESTATE_PATTERN(url)
             rest == _find_realestate_meta(Tail(a_element))
         IN IF match # None
            THEN <<RealestateMetadata(MetaUrl(url), Val(match).cat,
                                      Val(match).finncode)>> \o rest
            ELSE rest

----------------------------------------------------------------------------
(* property_page_parser.py: the normalisers *)

_clean(s) ==
    IF ~TruthySeq(s) THEN None
    ELSE LET t == Strip(Val(s)) IN IF t = <<>> THEN None ELSE Some(t)

\* _NUM.sub("", s): every non-digit removed
OnlyDigits(s) == SelectSeq(s, LAMBDA c : c \in Digits)

_to_int(s) ==
    IF ~TruthySeq(s) THEN None
    ELSE LET digits == OnlyDigits(Val(s))
         IN IF digits = <<>> THEN None ELSE Some(ParseInt(digits))

\* position of the first token of class C in s at or after i, 0 when there is none
RECURSIVE FirstIn(_, _, _)
FirstIn(s, i, C) ==
    IF i > Len(s) THEN 0 ELSE IF s[i] \in C THEN i ELSE FirstIn(s, i + 1, C)

_to_int_safe(s) ==
    IF ~TruthySeq(s) THEN None
    ELSE LET i == FirstIn(Val(s), 1, Digits)
         IN IF i = 0 THEN None
            ELSE Some(ParseInt(SubSeq(Val(s), i, i + RunLen(Val(s), i, Digits) - 1)))

\* a float is kept as its integer part and its fraction digits without
\* trailing zeros: 45.5 is [whole |-> 45, frac |-> <<"5">>]
RECURSIVE DropZeros(_)
DropZeros(d) ==
    IF d # <<>> /\ d[Len(d)] = "0" THEN DropZeros(SubSeq(d, 1, Len(d) - 1)) ELSE d
Float(whole, frac) == [whole |-> ParseInt(whole), frac |-> DropZeros(frac)]

_to_float_m2(s) ==
    IF ~TruthySeq(s) THEN None
    ELSE LET kept == SelectSeq(Val(s), LAMBDA c : c \in Digits \cup {",", ".", "-"})
             cleaned == [i \in DOMAIN kept |-> IF kept[i] = "," THEN "." ELSE kept[i]]
             i == FirstIn(cleaned, 1, Digits)
             n == RunLen(cleaned, i, Digits)
             f == IF i + n <= Len(cleaned) /\ cleaned[i + n] = "."
                  THEN RunLen(cleaned, i + n + 1, Digits) ELSE 0
         IN IF i = 0 THEN None
            ELSE Some(Float(SubSeq(cleaned, i, i + n - 1),
                            SubSeq(cleaned, i + n + 1, i + n + f)))

\* addr.split(","): the pieces between the commas
RECURSIVE SplitComma(_)
SplitComma(s) ==
    LET i == FirstIn(s, 1, {","})
    IN IF i = 0 THEN <<s>>
       ELSE <<SubSeq(s, 1, i - 1)>> \o SplitComma(SubSeq(s, i + 1, Len(s)))

\* re.search(r"(\d{4})\s+(.+)", s): None or <<group 1, group 2>>, for the
\* leftmost start; \s+ is greedy and gives back until `.` (any token but a
\* newline) can match
PostalCityAt(s, i) ==
    LET w == RunLen(s, i + 4, Spaces)
        ks == {k \in 1..w : i + 4 + k <= Len(s) /\ s[i + 4 + k] # "\n"}
        g == i + 4 + Max(ks)
        nl == FirstIn(s, g, {"\n"})
        h == IF nl = 0 THEN Len(s) ELSE nl - 1
    IN IF i + 3 <= Len(s) /\ RunLen(s, i, Digits) >= 4 /\ ks # {}
       THEN Some(<<SubSeq(s, i, i + 3), SubSeq(s, g, h)>>)
       ELSE None
PostalCity(s) ==
    LET starts == {i \in 1..Len(s) : PostalCityAt(s, i) # None}
    IN IF starts = {} THEN None ELSE PostalCityAt(s, Min(starts))

\* returns <<line, postal_code, city>>
_split_address(addr) ==
    IF ~TruthySeq(addr) THEN <<None, None, None>>
    ELSE LET raw == SplitComma(Val(addr))
             parts == [i \in DOMAIN raw |-> Strip(raw[i])]
         IN IF Len(parts) = 1
            THEN LET m == PostalCity(parts[1])
                 IN IF m # None
                    THEN <<None, Some(Val(m)[1]), Some(Strip(Val(m)[2]))>>
                    ELSE <<Some(parts[1]), None, None>>
            ELSE LET m == PostalCity(parts[2])
                 IN IF m # None
                    THEN <<Some(parts[1]), Some(Val(m)[1]), Some(Strip(Val(m)[2]))>>
                    ELSE <<Some(parts[1]), None, None>>

----------------------------------------------------------------------------
(* schemas/property.py: Address and its two resolvers *)

\* Address(line=..., postal_code=..., city=...): lat, lon and neighbourhood
\* take their defaults
Address(line, postal_code, city) ==
    [line |-> line, postal_code |-> postal_code, city |-> city,
     lat |-> None, lon |-> None, neighbourhood |-> None]

\* the parts joined into the search string, lines 36-42
SearchParts(self) ==
    (IF TruthySeq(self.line) THEN <<Val(self.line)>> ELSE <<>>)
    \o (IF TruthySeq(self.postal_code) THEN <<Val(self.postal_code)>> ELSE <<>>)
    \o (IF TruthySeq(self.city) THEN <<Val(self.city)>> ELSE <<>>)

(* A reply of the geocoding service is                                      *)
(*   [k |-> "neterr"]  the request raised a connection error,               *)
(*   [k |-> "timeout"] the request raised asyncio.TimeoutError, or          *)
(*   [k |-> "http", status, json, adresser]: json is FALSE when the body is *)
(*   no JSON object; adresser is None when the key is missing, else the     *)
(*   list, each entry [rep |-> None or [lat |-> Optional, lon |-> Optional]]*)
HttpReply(status, json, adresser) ==
    [k |-> "http", status |-> status, json |-> json, adresser |-> adresser]
NetError == [k |-> "neterr", status |-> 0, json |-> FALSE, adresser |-> None]
Timeout == [k |-> "timeout", status |-> 0, json |-> FALSE, adresser |-> None]

\* the coordinates lines 56-62 take from a parsed reply body, None when the
\* body yields none (a missing representasjonspunkt raises at line 58, which
\* line 64 catches)
ReplyCoordinates(reply) ==
    IF ~TruthySeq(reply.adresser) THEN None
    ELSE LET rep_punkt == Val(reply.adresser)[1].rep
         IN IF rep_punkt = None THEN None
            ELSE IF Val(rep_punkt).lat # None /\ Val(rep_punkt).lon # None
                 THEN Some(<<Val(Val(rep_punkt).lat), Val(Val(rep_punkt).lon)>>)
                 ELSE None

\* no exception
NoException == "none"

\* lines 52-63, the body of the try statement: the Address afterwards, the
\* value returned and the exception that leaves the body (NoException when
\* it returns).  session.get raises on a connection error or a timeout,
\* response.json() on a body that is no JSON object, and rep_punkt.get at
\* line 58 when the first result has no representasjonspunkt.
GeocodeBody(self, reply) ==
    LET returns(obj, value) == [self |-> obj, ret |-> value, exc |-> NoException]
        raises(class) == [self |-> self, ret |-> None, exc |-> class]
        set(c) == IF c = None THEN returns(self, None)
                  ELSE returns([self EXCEPT !.lat = Some(Val(c)[1]),
                                            !.lon = Some(Val(c)[2])], c)
    IN IF reply.k = "neterr" THEN raises("ClientError")
       ELSE IF reply.k = "timeout" THEN raises("TimeoutError")
       ELSE IF reply.status # 200 THEN returns(self, None)
       ELSE IF ~reply.json THEN raises("ContentTypeError")
       ELSE IF ~TruthySeq(reply.adresser) THEN returns(self, None)
       ELSE IF Val(reply.adresser)[1].rep = None THEN raises("AttributeError")
       ELSE set(ReplyCoordinates(reply))

\* the subclasses of Exception among the exceptions of the body
ExceptionClasses == {"ClientError", "TimeoutError", "ContentTypeError", "AttributeError"}

\* ExceptClause that catches connection errors only
ExceptClause_clientOnly(exc) == exc = "ClientError"

\* `except Exception:` at line 64
ExceptClause(exc) == exc \in ExceptionClasses

\* lines 51 and 64-65: the try statement around the body `body`; an
\* exception of the body leaves the method only when the except clause does
\* not catch it, and the session is opened once
TryExcept(body) ==
    [self |-> body.self, ret |-> body.ret, requests |-> 1,
     raised |-> body.exc # NoException /\ ~ExceptClause(body.exc)]

\* resolve_lat_long: the Address afterwards, the value returned, the number
\* of requests sent and whether an exception left the method
resolve_lat_long(self, reply) ==
    IF SearchParts(self) = <<>>
    THEN [self |-> self, ret |-> None, requests |-> 0, raised |-> FALSE]
    ELSE TryExcept(GeocodeBody(self, reply))

(* A geojson document is a dict: [other |-> whether it has keys besides      *)
(* "features", features |-> None (no such key) or the list of features].     *)
(* A feature is [geometry |-> None (no such key) or [valid, region],         *)
(* properties |-> None (no such key, or null) or [neighbourhood |-> Optional *)
(* label]]; region is the set of points the shape contains.                  *)
GeoJson(other, features) == [other |-> other, features |-> features]
Feature(geom, props) == [geometry |-> geom, properties |-> props]
TruthyDict(d) == d.other \/ d.features # None

\* Point(x, y)
Point(x, y) == <<x, y>>

\* the guard at line 79
NoCoordinates(self) == ~TruthyNum(self.lat) \/ ~TruthyNum(self.lon)

\* one pass of the loop body, lines 85-92: the neighbourhood afterwards
VisitFeature(neighbourhood, feature, point) ==
    IF feature.geometry = None \/ ~Val(feature.geometry).valid
    THEN neighbourhood                                  \* shape() raised
    ELSE IF point \in Val(feature.geometry).region
         THEN IF feature.properties = None
              THEN neighbourhood                        \* feature["properties"] raised
              ELSE Val(feature.properties).neighbourhood
         ELSE neighbourhood

RECURSIVE ScanFeatures(_, _, _)
ScanFeatures(neighbourhood, features, point) ==
    IF features = <<>> THEN neighbourhood
    ELSE ScanFeatures(VisitFeature(neighbourhood, Head(features), point),
                      Tail(features), point)

\* find_neighbourhood: the Address afterwards
find_neighbourhood(self, geojson_data) ==
    IF NoCoordinates(self) THEN self
    ELSE LET point == Point(Val(self.lon), Val(self.lat))
             features == IF geojson_data.features = None THEN <<>>
                         ELSE Val(geojson_data.features)
         IN [self EXCEPT !.neighbourhood =
                 ScanFeatures(self.neighbourhood, features, point)]

----------------------------------------------------------------------------
(* property_page_parser.py: the DOM queries *)

(* What the page engine does for one selector.  For tab.select:             *)
(*   "timeout"  asyncio.TimeoutError        "error"  any other exception    *)
(*   "none"     a falsy element             "text"   el.text is t           *)
(*   "fallback" el.text raises and el.text_content() gives t                *)
(*   "dead"     el.text and el.text_content() both raise                    *)
(* For tab.select_all: "timeout", "protocol" (ProtocolException), "error"   *)
(* (any other exception), "none" (a falsy list), "els" (t is the list of    *)
(* elements, each a "text", "fallback" or "dead" outcome).                  *)
Dom(k, t) == [k |-> k, t |-> t]

Returned(v) == [raised |-> FALSE, val |-> v]
Raised == [raised |-> TRUE, val |-> None]

\* the exceptions of tab.select caught at line 54
TextCaught == {"timeout"}
\* the exceptions of tab.select_all caught at lines 70 and 72
AllTextsCaught == {"timeout", "protocol"}

_text(q) ==
    IF q.k \in TextCaught THEN Returned(None)
    ELSE IF q.k \in {"error", "protocol"} THEN Raised
    ELSE IF q.k = "none" THEN Returned(None)
    ELSE IF q.k = "dead" THEN Returned(None)
    ELSE Returned(_clean(q.t))

\* lines 75-86: the cleaned, non-empty texts of the elements
RECURSIVE ElementTexts(_)
ElementTexts(els) ==
    IF els = <<>> THEN <<>>
    ELSE LET t == _clean(IF Head(els).k = "dead" THEN None ELSE Head(els).t)
         IN (IF TruthySeq(t) THEN <<Val(t)>> ELSE <<>>) \o ElementTexts(Tail(els))

_all_texts(q) ==
    IF q.k \in AllTextsCaught THEN Returned(<<>>)
    ELSE IF q.k = "error" THEN Raised
    ELSE IF q.k = "none" THEN Returned(<<>>)
    ELSE Returned(ElementTexts(q.t))

UpperCase == <<"A", "B", "C", "D", "E", "F", "G", "H", "I", "J", "K", "L", "M",
               "N", "O", "P", "Q", "R", "S", "T", "U", "V", "W", "X", "Y", "Z">>
LowerCase == <<"a", "b", "c", "d", "e", "f", "g", "h", "i", "j", "k", "l", "m",
               "n", "o", "p", "q", "r", "s", "t", "u", "v", "w", "x", "y", "z">>
\* str.lower()
Lower(s) ==
    [i \in DOMAIN s |->
        IF \E j \in DOMAIN UpperCase : UpperCase[j] = s[i]
        THEN LowerCase[CHOOSE j \in DOMAIN UpperCase : UpperCase[j] = s[i]]
        ELSE s[i]]

SOLGT == <<"s", "o", "l", "g", "t">>

\* _status on the texts _all_texts returned
_status(texts) ==
    IF \E i \in DOMAIN texts : Lower(Strip(texts[i])) = SOLGT
    THEN "sold" ELSE "active"

----------------------------------------------------------------------------
(* schemas/property.py: the Property model *)

\* the fields of Property that have no default (lines 100-193): all but
\* scraped_at.  Under pydantic 2, whose model_dump_json scrape() calls at
\* line 141, a field annotated `T | None` without a default is required: it
\* may be None but must be given
PropertyRequired ==
    {"title", "subtitle", "description_raw", "category", "address",
     "asking_price", "total_price", "transaction_costs", "communal_fees",
     "assessed_wealth_value", "shared_debt", "shared_equity", "property_type",
     "ownership_type", "bedrooms", "rooms", "floor", "year_built",
     "energy_label", "area_bra_i", "area_bra", "plot_area", "facilities",
     "finn_code", "url", "status", "raw_meta"}

\* Property(**kwargs): the record, or pydantic's ValidationError when a
\* required field is not given
Property(kwargs) ==
    IF PropertyRequired \subseteq DOMAIN kwargs
    THEN Returned(Some(kwargs))
    ELSE Raised

----------------------------------------------------------------------------
(* property_page_parser.py: parse_property_page *)

\* the DOM queries of parse_property_page in the order it makes them
\* (lines 120-162), each named after the variable it fills
QueryNames ==
    <<"title", "subtitle", "status", "address_line", "description_raw",
      "asking_price", "total_price", "transaction_costs", "shared_debt",
      "communal_fees", "shared_equity", "assessed_wealth_value",
      "property_type", "ownership_type", "bedrooms", "rooms", "floor",
      "year_built", "energy_label", "area_bra_i", "area_bra", "plot_area",
      "facilities">>
NQ == Len(QueryNames)
Q(name) == CHOOSE i \in 1..NQ : QueryNames[i] = name

\* the queries made with _all_texts (lines 105 and 162); the others use _text
AllTextsQueries == {Q("status"), Q("facilities")}

QueryResult(dom, i) ==
    IF i \in AllTextsQueries THEN _all_texts(dom[i]) ELSE _text(dom[i])

\* the first query whose exception leaves _text or _all_texts, 0 when none does
FirstRaise(dom) ==
    LET R == {i \in 1..NQ : QueryResult(dom, i).raised}
    IN IF R = {} THEN 0 ELSE Min(R)

\* `if neighbourhoods_geojson:` at line 133
GeoJsonGiven(geojson) == geojson # None /\ TruthyDict(Val(geojson))

\* EnrichAddress with the two steps in the other order
EnrichAddress_swapped(addr, reply, geojson) ==
    IF GeoJsonGiven(geojson)
    THEN [out |-> resolve_lat_long(find_neighbourhood(addr, Val(geojson)), reply),
          calls |-> <<"find_neighbourhood", "resolve_lat_long">>]
    ELSE [out |-> resolve_lat_long(addr, reply),
          calls |-> <<"resolve_lat_long">>]

\* lines 133-134, after resolve_lat_long gave `out`: the outcome of the
\* geocoder with the Address as find_neighbourhood leaves it, and the calls
\* made on the Address, in order
ThenFindNeighbourhood(out, geojson) ==
    IF ~out.raised /\ GeoJsonGiven(geojson)
    THEN [out |-> [out EXCEPT !.self = find_neighbourhood(@, Val(geojson))],
          calls |-> <<"resolve_lat_long", "find_neighbourhood">>]
    ELSE [out |-> out, calls |-> <<"resolve_lat_long">>]

\* lines 132-134
EnrichAddress(addr, reply, geojson) ==
    ThenFindNeighbourhood(resolve_lat_long(addr, reply), geojson)

\* lines 165-192: the keyword arguments given to Property
PropertyArguments(dom, meta, addr) ==
    LET T(name) == QueryResult(dom, Q(name)).val
    IN [title |-> _clean(T("title")),
        subtitle |-> _clean(T("subtitle")),
        description_raw |-> T("description_raw"),
        category |-> _clean(Some(meta.category)),
        address |-> addr,
        asking_price |-> _to_int(T("asking_price")),
        total_price |-> _to_int(T("total_price")),
        transaction_costs |-> _to_int(T("transaction_costs")),
        communal_fees |-> _to_int(T("communal_fees")),
        assessed_wealth_value |-> _to_int(T("assessed_wealth_value")),
        shared_debt |-> _to_int(T("shared_debt")),
        shared_equity |-> _to_int(T("shared_equity")),
        property_type |-> _clean(T("property_type")),
        ownership_type |-> _clean(T("ownership_type")),
        bedrooms |-> _to_int_safe(T("bedrooms")),
        rooms |-> _to_int_safe(T("rooms")),
        floor |-> _to_int_safe(T("floor")),
        year_built |-> _to_int_safe(T("year_built")),
        energy_label |-> _clean(T("energy_label")),
        area_bra_i |-> _to_float_m2(T("area_bra_i")),
        area_bra |-> _to_float_m2(T("area_bra")),
        plot_area |-> _to_float_m2(T("plot_area")),
        facilities |-> IF T("facilities") = <<>> THEN None ELSE Some(T("facilities")),
        finn_code |-> _clean(Some(meta.finn_id)),
        url |-> _clean(Some(meta.url)),
        status |-> _status(T("status"))]

(* parse_property_page in the environment env = [nav, dom, geo]: nav is     *)
(* "ok" or "raise" (browser.get), dom gives the page engine's outcome for   *)
(* each query, geo is the geocoding service's reply.  The result says       *)
(* whether an exception left the function, the Property returned, the       *)
(* Address constructed (None when line 131 was not reached) and the calls   *)
(* made, in order.  ParseOutcome gives it from the first query whose        *)
(* exception leaves its helper (stop, 0 when none does) and from what lines *)
(* 131-134 make of the address line (enriched).                             *)
ParseOutcome(env, meta, stop, enriched) ==
    LET hasAddress == env.nav = "ok" /\ (stop = 0 \/ stop > Q("address_line"))
        made == IF env.nav = "raise" THEN 0
                ELSE IF hasAddress /\ enriched.out.raised THEN Q("address_line")
                ELSE IF stop = 0 THEN NQ ELSE stop
        completed == env.nav = "ok" /\ stop = 0 /\ ~enriched.out.raised
        built == Property(PropertyArguments(env.dom, meta, enriched.out.self))
        before == IF made < Q("address_line") THEN made ELSE Q("address_line")
        calls == <<"get">>
                 \o SubSeq(QueryNames, 1, before)
                 \o (IF hasAddress THEN <<"Address">> \o enriched.calls ELSE <<>>)
                 \o SubSeq(QueryNames, Q("address_line") + 1, made)
                 \o (IF completed THEN <<"Property">> ELSE <<>>)
    IN [raised |-> ~completed \/ built.raised,
        prop |-> IF completed /\ ~built.raised THEN built.val ELSE None,
        address |-> IF hasAddress THEN Some(enriched.out.self) ELSE None,
        calls |-> calls]

\* lines 128 and 131: the Address constructed from the address line
AddressOfPage(split) == Address(split[1], split[2], split[3])

parse_property_page(env, meta, neighbourhoods_geojson) ==
    ParseOutcome(env, meta, FirstRaise(env.dom),
                 EnrichAddress(
                     AddressOfPage(_split_address(QueryResult(env.dom, Q("address_line")).val)),
                     env.geo, neighbourhoods_geojson))

----------------
(* scraper.py and realestate_metadata.py: what scrape() computes *)

\* the current page and the page numbers read from the navigation control
\* (lines 67-71): current is None when no element is marked as the current
\* page, all_pages is the set of the numbers of the "Side N" links
Nav(current, all_pages) == [current |-> current, all_pages |-> all_pages]

\* None.text at line 68 and max([]) at line 73 raise
NavRaises(nav) == nav.current = None \/ nav.all_pages = {}

\* the value returned at line 77
_has_more_pages(nav) == Max(nav.all_pages) >= Val(nav.current)

\* ReachedMaxPages with the comparison off by one (page > max_pages)
ReachedMaxPages_strict(p, limit) == TruthyNum(limit) /\ p > Val(limit)

\* `if max_pages and page >= max_pages` at line 114
ReachedMaxPages(p, limit) == TruthyNum(limit) /\ p >= Val(limit)

\* ExtendMeta assigning the page's list instead of extending by it
ExtendMeta_replace(meta, meta_for_page) == meta_for_page

\* property_meta.extend(meta_for_page) at line 109
ExtendMeta(meta, meta_for_page) == meta \o meta_for_page

\* MetaEq as the field-by-field equality a model has without its own __eq__
MetaEq_fields(self, other) == self = other

\* RealestateMetadata.__eq__ and __hash__
MetaEq(self, other) == self.finn_id = other.finn_id
MetaHash(self) == self.finn_id

\* set(property_meta): an element is added unless one with its hash that
\* equals it is already in; kept here in the order of first insertion
RECURSIVE SetOfMeta(_, _)
SetOfMeta(kept, rest) ==
    IF rest = <<>> THEN kept
    ELSE LET m == Head(rest)
             present == \E i \in DOMAIN kept :
                           MetaHash(kept[i]) = MetaHash(m) /\ MetaEq(kept[i], m)
         IN SetOfMeta(IF present THEN kept ELSE Append(kept, m), Tail(rest))

\* list(s) of a set gives its elements in an order the hashes decide: any order
Orders(s) ==
    {[i \in DOMAIN s |-> s[f[i]]] :
        f \in {g \in [DOMAIN s -> DOMAIN s] : \A i, j \in DOMAIN s : g[i] = g[j] => i = j}}

\* csv_exporter.py
_CATEGORICAL_COLS ==
    {"category", "property_type", "ownership_type", "energy_label", "status"}
_NUMERIC_COLS ==
    {"asking_price", "total_price", "transaction_costs", "communal_fees",
     "assessed_wealth_value", "shared_debt", "shared_equity", "bedrooms",
     "rooms", "floor", "year_built", "area_bra_i", "area_bra", "plot_area"}
_flatten_property(p) ==
    [c \in {"address", "neighbourhood"} \cup _CATEGORICAL_COLS \cup _NUMERIC_COLS |->
        IF c = "address" THEN p.address.line
        ELSE IF c = "neighbourhood" THEN p.address.neighbourhood
        ELSE p[c]]
CsvRows(props) == [i \in DOMAIN props |-> _flatten_property(props[i])]

----------------------------------------------------------------------------
(* The inputs the model draws from *)

\* a listing link /realestate/{cat}/ad.html?finnkode={code}
ListingPath(cat, code) == <<REALESTATE>> \o cat \o <<ADHTML>> \o code

HrefHomes == ListingPath(<<"h", "o", "m", "e", "s">>, <<"1", "2">>)
HrefHomesAbsolute == <<ORIGIN>> \o HrefHomes
HrefLettings == ListingPath(<<"l", "e", "t">>, <<"1", "2">>)
HrefNew == ListingPath(<<"n", "e", "w">>, <<"7">>)
HrefNewNewline == HrefNew \o <<"\n">>
HrefSearch == <<REALESTATE, "h", "o", "m", "e", "s", "/search.html">>
HrefBadCategory == ListingPath(<<"h", "1">>, <<"3">>)
HrefNoCode == ListingPath(<<"h">>, <<>>)

HrefSamples ==
    {HrefHomes, HrefHomesAbsolute, HrefLettings, HrefNew, HrefNewNewline,
     HrefSearch, HrefBadCategory, HrefNoCode}

\* the anchors of the results pages the crawl may be served
PageSamples ==
    {<<>>,
     <<HrefHomes, HrefSearch, HrefNew>>,
     <<HrefHomesAbsolute, HrefLettings>>,
     <<HrefNewNewline>>,
     <<HrefBadCategory, HrefHomes>>}

NavSamples ==
    {Nav(c, a) : c \in {None} \cup {Some(n) : n \in 1..MaxPage},
                 a \in SUBSET (1..MaxPage)}

MaxPagesSamples == {None} \cup {Some(k) : k \in 0..MaxPage}

\* points are <<lon, lat>>
Coords == 0..MaxCoord
Grid == Coords \X Coords
RegionWest == {pt \in Grid : pt[1] <= 1}
RegionNorth == {pt \in Grid : pt[2] >= 1}
Shape(region) == Some([valid |-> TRUE, region |-> region])
BadShape == Some([valid |-> FALSE, region |-> {}])
Label(l) == Some([neighbourhood |-> l])

FeatureWest == Feature(Shape(RegionWest), Label(Some("Sagene")))
FeatureNorth == Feature(Shape(RegionNorth), Label(Some("Frogner")))
FeatureBadShape == Feature(BadShape, Label(Some("Grorud")))
FeatureNoShape == Feature(None, Label(Some("Ullern")))
FeatureNoProperties == Feature(Shape(Grid), None)
FeatureNoLabel == Feature(Shape(RegionNorth), Label(None))

GeoSamples ==
    {GeoJson(FALSE, None),
     GeoJson(TRUE, None),
     GeoJson(TRUE, Some(<<>>)),
     GeoJson(TRUE, Some(<<FeatureWest, FeatureNorth>>)),
     GeoJson(TRUE, Some(<<FeatureNorth, FeatureWest>>)),
     GeoJson(TRUE, Some(<<FeatureWest, FeatureBadShape, FeatureNoProperties>>)),
     GeoJson(TRUE, Some(<<FeatureNoShape, FeatureNorth, FeatureNoProperties>>)),
     GeoJson(TRUE, Some(<<FeatureWest, FeatureNoLabel>>))}

RepPunkt(lat, lon) == [rep |-> Some([lat |-> lat, lon |-> lon])]
GeoReplies ==
    {NetError,
     Timeout,
     HttpReply(500, TRUE, Some(<<RepPunkt(Some(1), Some(1))>>)),
     HttpReply(200, FALSE, None),
     HttpReply(200, TRUE, None),
     HttpReply(200, TRUE, Some(<<>>)),
     HttpReply(200, TRUE, Some(<<[rep |-> None]>>)),
     HttpReply(200, TRUE, Some(<<RepPunkt(None, Some(1))>>)),
     HttpReply(200, TRUE, Some(<<RepPunkt(Some(1), None)>>)),
     HttpReply(200, TRUE, Some(<<[rep |-> None], RepPunkt(Some(1), Some(2))>>))}
    \cup {HttpReply(200, TRUE, Some(<<RepPunkt(Some(la), Some(lo))>>)) :
             la \in Coords, lo \in Coords}
    \cup {HttpReply(200, TRUE, Some(<<RepPunkt(Some(la), Some(0)),
                                      RepPunkt(Some(0), Some(la))>>)) : la \in Coords}

TextArea == <<"4", "5", ",", "5", "0", " ", "m">>
TextAddress == <<"J", " ", "9", ",", " ", "0", "5", "7", "5", " ", "O", "s">>
TextPostal == <<"0", "5", "7", "5", " ", "O", "s">>
TextSold == <<" ", "S", "o", "l", "g", "t">>
AddressTexts == {None, Some(<<" ">>), Some(TextAddress), Some(TextPostal), Some(<<"J">>)}

\* a page with every field, a page with none, a page of blank elements
FullDom ==
    [i \in 1..NQ |->
        IF i \in AllTextsQueries
        THEN Dom("els", <<Dom("text", Some(TextSold)), Dom("fallback", Some(<<"a">>)),
                          Dom("dead", None), Dom("text", Some(<<" ">>))>>)
        ELSE IF i = Q("address_line") THEN Dom("text", Some(TextAddress))
        ELSE Dom("text", Some(TextArea))]
EmptyDom == [i \in 1..NQ |-> Dom("timeout", None)]
BlankDom ==
    [i \in 1..NQ |->
        IF i \in AllTextsQueries THEN Dom("none", None) ELSE Dom("text", Some(<<" ">>))]
BaseDoms == {FullDom, EmptyDom, BlankDom}

\* what may go differently for one query
QueryVariants(i) ==
    IF i \in AllTextsQueries
    THEN {Dom("timeout", None), Dom("protocol", None), Dom("error", None),
          Dom("none", None), Dom("els", <<>>), Dom("els", <<Dom("text", Some(<<"a">>))>>)}
    ELSE {Dom("timeout", None), Dom("protocol", None), Dom("error", None),
          Dom("none", None), Dom("dead", None), Dom("fallback", Some(TextPostal)),
          Dom("text", None), Dom("text", Some(<<"N", "A">>))}

\* the pages: a base page, or one that differs from it in one query
DomSamples ==
    BaseDoms \cup UNION {{[b EXCEPT ![i] = v] : b \in BaseDoms, v \in QueryVariants(i)} :
                            i \in 1..NQ}

ParseEnv(nav, dom, geo) == [nav |-> nav, dom |-> dom, geo |-> geo]
ReplyFound == HttpReply(200, TRUE, Some(<<RepPunkt(Some(2), Some(1))>>))
ReplyEquator == HttpReply(200, TRUE, Some(<<RepPunkt(Some(0), Some(1))>>))

\* the environments of a parse_property_page call made on its own
ParseEnvs ==
    {ParseEnv("raise", EmptyDom, NetError)}
    \cup {ParseEnv("ok", d, g) : d \in DomSamples, g \in {NetError, ReplyFound, ReplyEquator}}

\* the environments of the parse_property_page calls scrape() makes
ScrapeEnvs ==
    {ParseEnv("raise", EmptyDom, NetError),
     ParseEnv("ok", FullDom, ReplyFound),
     ParseEnv("ok", EmptyDom, NetError),
     ParseEnv("ok", [FullDom EXCEPT ![Q("title")] = Dom("error", None)], ReplyFound)}

MetaSamples == {m[1] : m \in {_find_realestate_meta(<<h>>) : h \in HrefSamples} \ {<<>>}}

----------------------------------------------------------------------------
(* scrape(), step by step *)

Call(op, arg, pre, out) == [op |-> op, arg |-> arg, pre |-> pre, out |-> out]
NoCall == Call("none", None, None, None)

\* the harvester and the extractor on their own are not running
Idle == /\ hrefs = <<>> /\ meta_out = None /\ address = None /\ last = NoCall

InitScrape ==
    /\ pc = "load"
    /\ page = 1
    /\ max_pages \in MaxPagesSamples
    /\ neighbourhoods \in {GeoJson(FALSE, None),
                           GeoJson(TRUE, Some(<<FeatureWest, FeatureNorth>>))}
    /\ property_meta = <<>>
    /\ properties = <<>>
    /\ idx = 0
    /\ parsed_properties = <<>>
    /\ csv_out = None
    /\ json_out = None
    /\ requested = <<>>
    /\ harvested = <<>>
    /\ eq_seen = 0
    /\ crawl_end = None
    /\ parse_calls = <<>>
    /\ failed = <<>>
    /\ Idle

\* the loop is left: by the except clause at lines 117-119, which changes
\* nothing else, or by a break
CrawlStops(why) ==
    /\ crawl_end' = Some(<<page, why>>)
    /\ pc' = "dedup"

\* an exception ended the crawl loop
CrawlError == crawl_end # None /\ Val(crawl_end)[2] \in {"load", "harvest", "more"}

\* line 104: browser.get(url) returns the tab
LoadPage ==
    /\ pc = "load"
    /\ page <= MaxPage
    /\ requested' = Append(requested, page)
    /\ pc' = "harvest"
    /\ UNCHANGED <<page, max_pages, neighbourhoods, property_meta, properties, idx,
                   parsed_properties, csv_out, json_out, harvested, eq_seen,
                   crawl_end, parse_calls, failed, harvestVars, extractVars>>

\* line 104: browser.get(url) raises
LoadPageRaises ==
    /\ pc = "load"
    /\ page <= MaxPage
    /\ requested' = Append(requested, page)
    /\ CrawlStops("load")
    /\ UNCHANGED <<page, max_pages, neighbourhoods, property_meta, properties, idx,
                   parsed_properties, csv_out, json_out, harvested, eq_seen,
                   parse_calls, failed, harvestVars, extractVars>>

\* lines 106-109: the page's links are harvested and added
HarvestPage ==
    /\ pc = "harvest"
    /\ \E a_element \in PageSamples :
          LET meta_for_page == _find_realestate_meta(a_element)
          IN /\ property_meta' = ExtendMeta(property_meta, meta_for_page)
             /\ harvested' = harvested \o meta_for_page
    /\ pc' = "more"
    /\ UNCHANGED <<page, max_pages, neighbourhoods, properties, idx,
                   parsed_properties, csv_out, json_out, requested, eq_seen,
                   crawl_end, parse_calls, failed, harvestVars, extractVars>>

\* line 106: tab.select_all or an anchor's attrs raises
HarvestPageRaises ==
    /\ pc = "harvest"
    /\ CrawlStops("harvest")
    /\ UNCHANGED <<page, max_pages, neighbourhoods, property_meta, properties, idx,
                   parsed_properties, csv_out, json_out, requested, harvested,
                   eq_seen, parse_calls, failed, harvestVars, extractVars>>

\* lines 111-116: the navigation control is read and the loop goes on or ends
HasMorePages ==
    /\ pc = "more"
    /\ \E nav \in NavSamples :
          /\ ~NavRaises(nav)
          /\ eq_seen' = IF eq_seen = 0 /\ Val(nav.current) = Max(nav.all_pages)
                        THEN page ELSE eq_seen
          /\ IF ~_has_more_pages(nav)
             THEN CrawlStops("last") /\ page' = page
             ELSE IF ReachedMaxPages(page, max_pages)
             THEN CrawlStops("max") /\ page' = page
             ELSE pc' = "load" /\ page' = page + 1 /\ UNCHANGED crawl_end
    /\ UNCHANGED <<max_pages, neighbourhoods, property_meta, properties, idx,
                   parsed_properties, csv_out, json_out, requested, harvested,
                   parse_calls, failed, harvestVars, extractVars>>

\* line 111: _has_more_pages raises
HasMorePagesRaises ==
    /\ pc = "more"
    /\ \E nav \in NavSamples : NavRaises(nav)
    /\ CrawlStops("more")
    /\ UNCHANGED <<page, max_pages, neighbourhoods, property_meta, properties, idx,
                   parsed_properties, csv_out, json_out, requested, harvested,
                   eq_seen, parse_calls, failed, harvestVars, extractVars>>

\* line 124: properties = list(set(property_meta)), and the for loop starts
Deduplicate ==
    /\ pc = "dedup"
    /\ properties' \in Orders(SetOfMeta(<<>>, property_meta))
    /\ idx' = 1
    /\ pc' = "parse"
    /\ UNCHANGED <<page, max_pages, neighbourhoods, property_meta,
                   parsed_properties, csv_out, json_out, requested, harvested,
                   eq_seen, crawl_end, parse_calls, failed, harvestVars,
                   extractVars>>

\* ParseListing with the try around the whole loop: the first call that
\* raises ends the loop
ParseListing_abort ==
    /\ pc = "parse"
    /\ idx <= Len(properties)
    /\ \E env \in ScrapeEnvs :
          LET parsed == parse_property_page(env, properties[idx], Some(neighbourhoods))
          IN IF parsed.raised
             THEN /\ failed' = Append(failed, properties[idx])
                  /\ idx' = Len(properties) + 1
                  /\ UNCHANGED parsed_properties
             ELSE /\ parsed_properties' = Append(parsed_properties, Val(parsed.prop))
                  /\ idx' = idx + 1
                  /\ UNCHANGED failed
    /\ parse_calls' = Append(parse_calls, properties[idx])
    /\ UNCHANGED <<pc, page, max_pages, neighbourhoods, property_meta, properties,
                   csv_out, json_out, requested, harvested, eq_seen, crawl_end,
                   harvestVars, extractVars>>

\* lines 129-135: one pass of the for loop; the try is inside the loop
\* body, so the loop goes on with the next element whether or not the call
\* at line 131 raised
ParseListing ==
    /\ pc = "parse"
    /\ idx <= Len(properties)
    /\ \E env \in ScrapeEnvs :
          LET parsed == parse_property_page(env, properties[idx], Some(neighbourhoods))
          IN IF parsed.raised
             THEN /\ failed' = Append(failed, properties[idx])
                  /\ UNCHANGED parsed_properties
             ELSE /\ parsed_properties' = Append(parsed_properties, Val(parsed.prop))
                  /\ UNCHANGED failed
    /\ parse_calls' = Append(parse_calls, properties[idx])
    /\ idx' = idx + 1
    /\ UNCHANGED <<pc, page, max_pages, neighbourhoods, property_meta, properties,
                   csv_out, json_out, requested, harvested, eq_seen, crawl_end,
                   harvestVars, extractVars>>

\* line 137: properties_to_csv(parsed_properties, "output.csv")
ExportCsv ==
    /\ pc = "parse"
    /\ idx > Len(properties)
    /\ csv_out' = Some(CsvRows(parsed_properties))
    /\ pc' = "json"
    /\ UNCHANGED <<page, max_pages, neighbourhoods, property_meta, properties, idx,
                   parsed_properties, json_out, requested, harvested, eq_seen,
                   crawl_end, parse_calls, failed, harvestVars, extractVars>>

\* lines 140-143: the list is written as JSON
ExportJson ==
    /\ pc = "json"
    /\ json_out' = Some(parsed_properties)
    /\ pc' = "done"
    /\ UNCHANGED <<page, max_pages, neighbourhoods, property_meta, properties, idx,
                   parsed_properties, csv_out, requested, harvested, eq_seen,
                   crawl_end, parse_calls, failed, harvestVars, extractVars>>

Next ==
    \/ LoadPage
    \/ LoadPageRaises
    \/ HarvestPage
    \/ HarvestPageRaises
    \/ HasMorePages
    \/ HasMorePagesRaises
    \/ Deduplicate
    \/ ParseListing
    \/ ExportCsv
    \/ ExportJson

Spec == InitScrape /\ [][Next]_vars

----------------------------------------------------------------------------
(* The harvester on its own: _find_realestate_meta applied to one page *)

\* scrape() is not running
ScrapeIdle ==
    /\ page = 1
    /\ max_pages = None
    /\ neighbourhoods = GeoJson(FALSE, None)
    /\ property_meta = <<>>
    /\ properties = <<>>
    /\ idx = 0
    /\ parsed_properties = <<>>
    /\ csv_out = None
    /\ json_out = None
    /\ requested = <<>>
    /\ harvested = <<>>
    /\ eq_seen = 0
    /\ crawl_end = None
    /\ parse_calls = <<>>
    /\ failed = <<>>

InitHarvest ==
    /\ pc = "page"
    /\ hrefs \in SeqsUpTo(HrefSamples, MaxLinks)
    /\ meta_out = None
    /\ address = None
    /\ last = NoCall
    /\ ScrapeIdle

FindRealestateMeta ==
    /\ pc = "page"
    /\ meta_out' = Some(_find_realestate_meta(hrefs))
    /\ pc' = "harvested"
    /\ UNCHANGED <<hrefs, neighbourhoods, scrapeVars, extractVars>>

NextHarvest == FindRealestateMeta

SpecHarvest == InitHarvest /\ [][NextHarvest]_vars

----------------------------------------------------------------------------
(* The extractor on its own: one parse_property_page call, or an Address   *)
(* constructed directly, and then any resolve_lat_long and                  *)
(* find_neighbourhood calls on the Address                                  *)

GeoWestNorth == GeoJson(TRUE, Some(<<FeatureWest, FeatureNorth>>))
MetaHomes == _find_realestate_meta(<<HrefHomes>>)[1]

\* <<env, meta, neighbourhoods_geojson>> of the parse_property_page calls
ParseInputs ==
    {<<ParseEnv("ok", d, ReplyFound), m, Some(GeoWestNorth)>> :
        d \in DomSamples, m \in MetaSamples}
    \cup {<<ParseEnv(nav, d, g), MetaHomes, gj>> :
             nav \in {"ok", "raise"}, d \in BaseDoms, g \in GeoReplies,
             gj \in {None} \cup {Some(x) : x \in GeoSamples}}

InitExtract ==
    /\ pc = "start"
    /\ address = None
    /\ last = NoCall
    /\ hrefs = <<>>
    /\ meta_out = None
    /\ ScrapeIdle

NewAddress ==
    /\ pc = "start"
    /\ \E t \in AddressTexts :
          LET split == _split_address(t)
          IN /\ address' = Some(Address(split[1], split[2], split[3]))
             /\ last' = Call("Address", t, None, None)
    /\ pc' = "built"
    /\ UNCHANGED <<neighbourhoods, scrapeVars, harvestVars>>

ParsePropertyPage ==
    /\ pc = "start"
    /\ \E in \in ParseInputs :
          LET out == parse_property_page(in[1], in[2], in[3])
          IN /\ address' = out.address
             /\ last' = Call("parse_property_page", in, None, out)
    /\ pc' = "parsed"
    /\ UNCHANGED <<neighbourhoods, scrapeVars, harvestVars>>

ResolveLatLong ==
    /\ address # None
    /\ \E reply \in GeoReplies :
          LET out == resolve_lat_long(Val(address), reply)
          IN /\ address' = Some(out.self)
             /\ last' = Call("resolve_lat_long", reply, address, out)
    /\ UNCHANGED <<pc, neighbourhoods, scrapeVars, harvestVars>>

FindNeighbourhood ==
    /\ address # None
    /\ \E geojson_data \in GeoSamples :
          /\ address' = Some(find_neighbourhood(Val(address), geojson_data))
          /\ last' = Call("find_neighbourhood", geojson_data, address, None)
    /\ UNCHANGED <<pc, neighbourhoods, scrapeVars, harvestVars>>

NextExtract ==
    \/ NewAddress
    \/ ParsePropertyPage
    \/ ResolveLatLong
    \/ FindNeighbourhood

SpecExtract == InitExtract /\ [][NextExtract]_vars

----------------------------------------------------------------------------
(* Properties of scrape() *)

FinnCodes(metas) == {metas[i].finn_id : i \in DOMAIN metas}
Extracting == pc \in {"parse", "json", "done"}

\* C1: with no max_pages and no exception, the crawl stops after the first
\* page whose navigation control shows current page = maximum page: no page
\* beyond that one is requested.
C1_StopsAtLastPage ==
    (max_pages = None /\ ~CrawlError /\ eq_seen # 0)
        => \A i \in DOMAIN requested : requested[i] <= eq_seen

\* C2: the pages are requested in the order 1, 2, 3, ... without a gap or a
\* repetition, and with max_pages = k >= 1 at most k pages are requested.
C2_SequentialPages ==
    /\ \A i \in DOMAIN requested : requested[i] = i
    /\ (max_pages # None /\ Val(max_pages) >= 1) => Len(requested) <= Val(max_pages)

\* the crawl was allowed one page, the control of page 1 showed a further
\* page, and the loop ended by the max_pages break after that one request
C2_Witness ==
    /\ max_pages = Some(1)
    /\ crawl_end = Some(<<1, "max">>)
    /\ requested = <<1>>
    /\ pc = "done"

\* C3: an exception in loading, harvesting or reading the control of page n
\* ends the crawl loop; everything harvested until then is still in
\* property_meta, and the run goes on: it is never stuck before the exports,
\* every collected listing is handed to the extractor and both files are
\* written.
C3_CrawlErrorKeepsMetadata ==
    CrawlError =>
        /\ Extracting \/ pc = "dedup"
        /\ property_meta = harvested
        /\ pc # "done" => ENABLED Next
        /\ pc = "done" =>
              /\ FinnCodes(parse_calls) = FinnCodes(harvested)
              /\ csv_out # None
              /\ json_out # None

\* the control of page 2 could not be read; the listings of pages 1 and 2
\* went through extraction and export
C3_Witness ==
    /\ crawl_end = Some(<<2, "more">>)
    /\ Len(harvested) >= 3
    /\ property_meta = harvested
    /\ Len(parse_calls) >= 2
    /\ pc = "done"

\* C4: the list handed to the extractor holds exactly one metadata per finn
\* code harvested: none missing, none twice, each one of those harvested.
C4_OnePerFinnCode ==
    Extracting =>
        /\ \A i, j \in DOMAIN properties :
              properties[i].finn_id = properties[j].finn_id => i = j
        /\ FinnCodes(properties) = FinnCodes(harvested)
        /\ Range(properties) \subseteq Range(harvested)

\* one finn code was harvested with two urls and with two categories, and
\* another code beside it
C4_Witness ==
    /\ Extracting
    /\ Len(properties) = 2
    /\ \E i, j \in DOMAIN harvested :
          /\ harvested[i].finn_id = harvested[j].finn_id
          /\ harvested[i].category # harvested[j].category
    /\ \E i, j \in DOMAIN harvested :
          /\ harvested[i].finn_id = harvested[j].finn_id
          /\ harvested[i].category = harvested[j].category
          /\ harvested[i].url # harvested[j].url

\* C5: every deduplicated metadata is passed to parse_property_page exactly
\* once, in list order; a call that raises leaves its listing out and the
\* loop goes on; at the end exported + failed = distinct finn codes, and
\* the CSV rows are the rows of the records written as JSON.
C5_EachListingParsedOnce ==
    /\ Extracting => parse_calls = SubSeq(properties, 1, Len(parse_calls))
    /\ pc = "parse" => Len(parse_calls) = idx - 1
    /\ Len(parsed_properties) + Len(failed) = Len(parse_calls)
    /\ pc \in {"json", "done"} => parse_calls = properties
    /\ pc = "done" =>
          /\ Val(json_out) = parsed_properties
          /\ Val(csv_out) = CsvRows(Val(json_out))
          /\ Len(Val(json_out)) + Len(failed) = Cardinality(FinnCodes(harvested))

\* two listings failed one after the other and the run still exported
C5_Witness ==
    /\ pc = "done"
    /\ Len(properties) = 2
    /\ Len(failed) = 2
    /\ csv_out # None

----------------------------------------------------------------------------
(* Properties of the harvester *)

\* a href without the site origin it may start with
SitePath(href) == IF href # <<>> /\ href[1] = ORIGIN THEN Tail(href) ELSE href

\* the metadata the links of a page stand for: one per matching href, in
\* page order, its url the origin followed once by the href's path
RECURSIVE ListingsOf(_)
ListingsOf(links) ==
    IF links = <<>> THEN <<>>
    ELSE LET m == REALESTATE_PATTERN(Head(links))
         IN (IF m = None THEN <<>>
             ELSE <<[url |-> <<ORIGIN>> \o SitePath(Head(links)),
                     category |-> Val(m).cat, finn_id |-> Val(m).finncode]>>)
            \o ListingsOf(Tail(links))

\* C8: _find_realestate_meta emits a metadata for exactly the hrefs that
\* match the listing pattern, in DOM order, with the matched category and
\* code and with the listing's absolute url, whether the href is
\* site-relative or starts with the origin.
C8_HarvestsAbsoluteUrls ==
    pc = "harvested" => Val(meta_out) = ListingsOf(hrefs)

----------------------------------------------------------------------------
(* Properties of the extractor *)

ParseDone == last.op = "parse_property_page"
ParseNavigated == ParseDone /\ last.arg[1].nav = "ok"

\* the page answered every query with an element or with none (a timeout,
\* a falsy result), never with another exception
FieldsPresentOrAbsent(dom) == \A i \in 1..NQ : dom[i].k \notin {"error", "protocol"}

\* C6: when the navigation succeeds, parse_property_page returns a Property
\* whose finn_code, url and category are those of the metadata, whichever
\* fields of the page are present or absent.
C6_ReturnsRecordOfListing ==
    (ParseNavigated /\ FieldsPresentOrAbsent(last.arg[1].dom)) =>
        /\ ~last.out.raised
        /\ last.out.prop # None
        /\ Val(last.out.prop).finn_code = Some(last.arg[2].finn_id)
        /\ Val(last.out.prop).url = Some(last.arg[2].url)
        /\ Val(last.out.prop).category = Some(last.arg[2].category)

\* C7: an error or a timeout of one field query does not leave
\* parse_property_page: every query of the page is still made and the
\* Property is constructed from what they gave.
C7_FieldErrorsContained ==
    ParseNavigated =>
        /\ \A i \in 1..NQ : QueryNames[i] \in Range(last.out.calls)
        /\ "Property" \in Range(last.out.calls)

Indices(calls, name) == {i \in DOMAIN calls : calls[i] = name}

\* C9: the Address has a neighbourhood only if it has lat and lon, after
\* any calls with any outcomes; in parse_property_page every
\* find_neighbourhood call comes after a resolve_lat_long call, the geocode
\* step runs whenever the Address is constructed, and find_neighbourhood is
\* called only if a geojson was given.
C9_NeighbourhoodNeedsCoordinates ==
    /\ address # None =>
          (Val(address).neighbourhood # None =>
              Val(address).lat # None /\ Val(address).lon # None)
    /\ ParseDone =>
          LET calls == last.out.calls
          IN /\ \A j \in Indices(calls, "find_neighbourhood") :
                    \E i \in Indices(calls, "resolve_lat_long") : i < j
             /\ Indices(calls, "Address") # {} => Indices(calls, "resolve_lat_long") # {}
             /\ Indices(calls, "find_neighbourhood") # {} => last.arg[3] # None

\* a parse_property_page call located the address and found its
\* neighbourhood
C9_Witness ==
    /\ ParseDone
    /\ Indices(last.out.calls, "find_neighbourhood") # {}
    /\ address # None
    /\ Val(address).lat # None
    /\ Val(address).neighbourhood # None

\* the features of a geojson whose shape contains the point and whose
\* geometry and properties are well formed
Containing(features, point) ==
    {i \in DOMAIN features :
        /\ features[i].geometry # None
        /\ Val(features[i].geometry).valid
        /\ point \in Val(features[i].geometry).region
        /\ features[i].properties # None}

\* C10: for an Address with coordinates, find_neighbourhood sets the
\* neighbourhood to the label of the last feature containing (lon, lat) and
\* leaves it as it was when no feature contains the point; malformed
\* features are skipped.
C10_LastContainingFeatureWins ==
    (/\ last.op = "find_neighbourhood"
     /\ Val(last.pre).lat # None
     /\ Val(last.pre).lon # None) =>
        LET features == IF last.arg.features = None THEN <<>> ELSE Val(last.arg.features)
            hits == Containing(features, <<Val(Val(last.pre).lon), Val(Val(last.pre).lat)>>)
        IN Val(address).neighbourhood =
              IF hits = {} THEN Val(last.pre).neighbourhood
              ELSE Val(features[Max(hits)].properties).neighbourhood

\* a resolve_lat_long call was the last call made on the Address
Resolved == last.op = "resolve_lat_long"

\* the Address has a line, a postal code or a city
HasSearchParts(a) ==
    \E part \in {a.line, a.postal_code, a.city} : part # None /\ Val(part) # <<>>

\* the reply is a response with status 200 whose body is a JSON object with
\* at least one result, the first with a representasjonspunkt that has both
\* lat and lon
SuccessfulReply(reply) ==
    /\ reply.k = "http"
    /\ reply.status = 200
    /\ reply.json
    /\ reply.adresser # None
    /\ Len(Val(reply.adresser)) >= 1
    /\ Val(reply.adresser)[1].rep # None
    /\ Val(Val(reply.adresser)[1].rep).lat # None
    /\ Val(Val(reply.adresser)[1].rep).lon # None

\* what a resolve_lat_long call on Address `before` with reply `reply` leaves:
\* no exception; lat and lon of the first result when the reply is
\* successful and the Address has something to search for, and otherwise
\* lat and lon as they were; nothing else of the Address changes
GeocodeOutcome(before, reply, out, after) ==
    /\ ~out.raised
    /\ IF HasSearchParts(before) /\ SuccessfulReply(reply)
       THEN LET first == Val(Val(reply.adresser)[1].rep)
            IN /\ after.lat = first.lat
               /\ after.lon = first.lon
               /\ out.ret = Some(<<Val(first.lat), Val(first.lon)>>)
       ELSE /\ after.lat = before.lat
            /\ after.lon = before.lon
            /\ out.ret = None
    /\ after.line = before.line
    /\ after.postal_code = before.postal_code
    /\ after.city = before.city
    /\ after.neighbourhood = before.neighbourhood

\* C11 as stated: resolve_lat_long never raises, leaves lat and lon
\* unchanged on a non-success status, an empty result set, a malformed
\* response, a network error or a timeout, sets them only together from the
\* first result of a successful response, and makes a single request.
C11_SingleRequest ==
    /\ address # None => (Val(address).lat = None <=> Val(address).lon = None)
    /\ Resolved =>
          /\ GeocodeOutcome(Val(last.pre), last.arg, last.out, Val(address))
          /\ last.out.requests = 1

\* C11, amended: resolve_lat_long never raises, leaves lat and lon unchanged
\* on a non-success status, an empty result set, a malformed response, a
\* network error or a timeout, sets them only together from the first result
\* of a successful response, and makes one request and no more when the
\* Address has a line, a postal code or a city, and no request at all when
\* it has none of them.
C11_AtMostOneRequest ==
    /\ address # None => (Val(address).lat = None <=> Val(address).lon = None)
    /\ Resolved =>
          /\ GeocodeOutcome(Val(last.pre), last.arg, last.out, Val(address))
          /\ last.out.requests = IF HasSearchParts(Val(last.pre)) THEN 1 ELSE 0

\* an Address located by an earlier call is geocoded again, the request
\* times out, and the coordinates stay
C11_Witness ==
    /\ Resolved
    /\ HasSearchParts(Val(last.pre))
    /\ last.arg = Timeout
    /\ last.out.requests = 1
    /\ Val(last.pre).lat # None
    /\ Val(address).lat = Val(last.pre).lat
    /\ Val(address).lon = Val(last.pre).lon

====
